---- MODULE Spec2Model ----
(***************************************************************************)
(* Model of the notebook 02_EEGFeatureModeling.ipynb: the cells that load  *)
(* the epoch table and the saved feature table, build the alpha-amplitude  *)
(* median columns and the FOOOF peak-parameter columns, assemble and       *)
(* persist the combined feature table, reload it, clean it and split it.   *)
(*                                                                         *)
(* The cells run top to bottom (one run of the notebook); an uncaught      *)
(* exception ends the run.  The notebook's top-level names are the state.  *)
(*                                                                         *)
(* Numbers are exact rationals <<numerator, denominator>> in lowest terms, *)
(* denominator > 0; the float NaN is <<0, 0>>.  numpy computes in binary   *)
(* floating point: the model agrees with it wherever the float result is   *)
(* exact and is its real-number value otherwise.                           *)
(*                                                                         *)
(* The library estimators (neurodsp amp_by_time, welch PSD, FOOOF fit) are *)
(* not part of the notebook.  A waveform is represented by what these      *)
(* estimators return on it: its instantaneous-amplitude array and its      *)
(* fitted peak list.                                                       *)
(***************************************************************************)
EXTENDS Integers, Sequences, FiniteSets, TLC

VARIABLES
    pc,                   \* the cell (or loop) the run is about to execute
    error,                \* the uncaught exception that ended the run, or "none"
    eeg_epoch_full_df,    \* epoch table: sequence of rows (trial i is row i+1)
    W1_feature_df,        \* previously saved feature table
    i,                    \* loop variable: index (0-based) of the next trial
    ch,                   \* loop variable: position in eeg_chans of the next channel
    alpha_amps,           \* dict: key -> list of amplitude medians
    alpha_med_df,         \* DataFrame(alpha_amps)
    feature_df,           \* the feature table in memory
    num_with_alpha,
    num_without_alpha,
    fooof_parameters,     \* dict: key -> list of peak parameters
    peak_params,          \* fm.peak_params_ of the last fit
    peak_params_alpha,    \* the peaks selected from peak_params
    means,                \* the triple appended last
    fooof_parameters_df,  \* DataFrame(fooof_parameters)
    W2_file,              \* content of W2_feature_df.pkl, <<>> while absent
    null_cols,            \* labels of the columns with a missing value
    cleaned_feature_df,
    train_rows,           \* row positions of x_train / y_train
    test_rows             \* row positions of x_test / y_test

vars == <<pc, error, eeg_epoch_full_df, W1_feature_df, i, ch, alpha_amps,
          alpha_med_df, feature_df, num_with_alpha, num_without_alpha,
          fooof_parameters, peak_params, peak_params_alpha, means,
          fooof_parameters_df, W2_file, null_cols, cleaned_feature_df,
          train_rows, test_rows>>

-----------------------------------------------------------------------------
(* Bounds of the model *)

\* largest number of trials in the epoch table
MaxTrials == 3

\* largest number of rows in the previously saved feature table
MaxSavedRows == 3

-----------------------------------------------------------------------------
(* Numbers *)

NaN == <<0, 0>>

IsNaN(v) == v[2] = 0

Abs(n) == IF n < 0 THEN -n ELSE n

RECURSIVE GCD(_, _)
GCD(a, b) == IF b = 0 THEN a ELSE GCD(b, a % b)

\* the rational n/d (d > 0) in lowest terms; anything over 0 is NaN
Rat(n, d) ==
    IF d = 0 THEN NaN
    ELSE LET g == GCD(Abs(n), d) IN <<n \div g, d \div g>>

Num(n) == <<n, 1>>

Zero == Num(0)

\* float comparisons: every comparison with NaN is false
Less(a, b) == ~IsNaN(a) /\ ~IsNaN(b) /\ a[1] * b[2] < b[1] * a[2]

Greater(a, b) == Less(b, a)

Add(a, b) ==
    IF IsNaN(a) \/ IsNaN(b) THEN NaN
    ELSE Rat(a[1] * b[2] + b[1] * a[2], a[2] * b[2])

\* a / k for an integer k; k = 0 gives NaN (numpy: mean of an empty slice)
DivInt(a, k) == IF IsNaN(a) THEN NaN ELSE Rat(a[1], a[2] * k)

-----------------------------------------------------------------------------
(* Constants cell *)

eeg_chans == <<"C3", "Cz", "C4">>

alpha_range == <<7, 12>>

-----------------------------------------------------------------------------
(* str() of the band tuple, as Python formats it *)

Digit(d) ==
    CASE d = 0 -> "0" [] d = 1 -> "1" [] d = 2 -> "2" [] d = 3 -> "3"
      [] d = 4 -> "4" [] d = 5 -> "5" [] d = 6 -> "6" [] d = 7 -> "7"
      [] d = 8 -> "8" [] d = 9 -> "9"

RECURSIVE StrInt(_)
StrInt(n) == IF n < 10 THEN Digit(n) ELSE StrInt(n \div 10) \o Digit(n % 10)

\* str((a, b)) = "(a, b)"
StrTuple(t) == "(" \o StrInt(t[1]) \o ", " \o StrInt(t[2]) \o ")"

-----------------------------------------------------------------------------
(* Python dicts (insertion ordered) of lists *)

EmptyDict == [keys |-> <<>>, vals |-> <<>>]

DictHas(d, key) == \E k \in 1..Len(d.keys) : d.keys[k] = key

DictPos(d, key) == CHOOSE k \in 1..Len(d.keys) : d.keys[k] = key

DictGet(d, key) == d.vals[DictPos(d, key)]

\* if key not in d: d[key] = []
DictSetDefault(d, key) ==
    IF DictHas(d, key) THEN d
    ELSE [keys |-> Append(d.keys, key), vals |-> Append(d.vals, <<>>)]

\* d[key].append(v)
DictAppend(d, key, v) ==
    [d EXCEPT !.vals[DictPos(d, key)] = Append(@, v)]

-----------------------------------------------------------------------------
(* pandas tables: column labels, row count (index 0..n-1), column data *)

EmptyDF == [columns |-> <<>>, n |-> 0, data |-> <<>>]

\* pd.DataFrame(dict of lists): one column per key, in insertion order
DataFrame(d) ==
    [columns |-> d.keys,
     n       |-> IF Len(d.keys) = 0 THEN 0 ELSE Len(d.vals[1]),
     data    |-> d.vals]

MaxOf(S) == CHOOSE m \in S : \A x \in S : x <= m

\* reindex one column to rows 0..n-1: rows it lacks are missing
Reindex(col, n) == [r \in 1..n |-> IF r <= Len(col) THEN col[r] ELSE NaN]

RECURSIVE FlattenSeq(_)
FlattenSeq(ss) == IF ss = <<>> THEN <<>> ELSE Head(ss) \o FlattenSeq(Tail(ss))

MinOf(S) == CHOOSE m \in S : \A x \in S : m <= x

\* variant: inner join on the row index, rows not in every frame are cut
ConcatInner(frames) ==
    LET n == IF Len(frames) = 0 THEN 0
             ELSE MinOf({frames[f].n : f \in 1..Len(frames)})
    IN [columns |-> FlattenSeq([f \in 1..Len(frames) |-> frames[f].columns]),
        n       |-> n,
        data    |-> FlattenSeq([f \in 1..Len(frames) |->
                       [k \in 1..Len(frames[f].data) |->
                           Reindex(frames[f].data[k], n)]])]

\* pd.concat(frames, axis=1) of frames with default indexes: outer join on
\* the row index, the columns of the frames side by side in order
Concat(frames) ==
    LET n == MaxOf({0} \cup {frames[f].n : f \in 1..Len(frames)})
    IN [columns |-> FlattenSeq([f \in 1..Len(frames) |-> frames[f].columns]),
        n       |-> n,
        data    |-> FlattenSeq([f \in 1..Len(frames) |->
                       [k \in 1..Len(frames[f].data) |->
                           Reindex(frames[f].data[k], n)]])]

-----------------------------------------------------------------------------
(* numpy helpers *)

RECURSIVE DropNaN(_)
DropNaN(s) ==
    IF s = <<>> THEN <<>>
    ELSE (IF IsNaN(Head(s)) THEN <<>> ELSE <<Head(s)>>) \o DropNaN(Tail(s))

RECURSIVE Insert(_, _)
Insert(v, s) ==
    IF s = <<>> THEN <<v>>
    ELSE IF Less(Head(s), v) THEN <<Head(s)>> \o Insert(v, Tail(s))
    ELSE <<v>> \o s

RECURSIVE Sort(_)
Sort(s) == IF s = <<>> THEN <<>> ELSE Insert(Head(s), Sort(Tail(s)))

\* np.nanmedian: the median of the entries that are not NaN (NaN if none)
NanMedian(a) ==
    LET s == Sort(DropNaN(a))
        n == Len(s)
    IN IF n = 0 THEN NaN
       ELSE IF n % 2 = 1 THEN s[(n + 1) \div 2]
       ELSE DivInt(Add(s[n \div 2], s[n \div 2 + 1]), 2)

RECURSIVE SumComp(_, _, _)
SumComp(ps, j, k) ==
    IF k > Len(ps) THEN Zero ELSE Add(ps[k][j], SumComp(ps, j, k + 1))

\* np.mean(list of triples, axis=0)
MeanAxis0(ps) == [j \in 1..3 |-> DivInt(SumComp(ps, j, 1), Len(ps))]

-----------------------------------------------------------------------------
(* pickle: the table written as a stream of records and parsed back *)
(* The serialisation is the pickle library's, not the notebook's: the two  *)
(* operators below stand for it and are inverse to each other by           *)
(* construction, as the library documents.  The notebook's own part is     *)
(* that SavePickle writes and LoadW2 reads the same file.                  *)

Tok(tag, s, v) == [tag |-> tag, s |-> s, v |-> v]

\* one column: its label, then its values row by row
DumpColumn(df, k) ==
    <<Tok("col", df.columns[k], NaN)>> \o
    [r \in 1..df.n |-> Tok("val", "", df.data[k][r])]

\* DataFrame.to_pickle: the shape, then the columns in order
PickleDumps(df) ==
    <<Tok("frame", "", <<Len(df.columns), df.n>>)>> \o
    FlattenSeq([k \in 1..Len(df.columns) |-> DumpColumn(df, k)])

\* pickle.load: rebuild the table from the stream
PickleLoads(bytes) ==
    LET ncols == bytes[1].v[1]
        n     == bytes[1].v[2]
        at(k) == 2 + (k - 1) * (n + 1)
    IN [columns |-> [k \in 1..ncols |-> bytes[at(k)].s],
        n       |-> n,
        data    |-> [k \in 1..ncols |-> [r \in 1..n |-> bytes[at(k) + r].v]]]

-----------------------------------------------------------------------------
(* Inputs: the waveforms, the epoch tables and the saved feature tables *)

\* a fitted peak: (center frequency, power, bandwidth)
Peak(cf, pw, bw) == <<cf, pw, bw>>

\* no spectral peak at all
WaveFlat ==
    [amp   |-> <<NaN, Num(2), Num(4), NaN>>,
     peaks |-> <<>>]

\* peaks exactly on the two band edges and one far outside
WaveEdge ==
    [amp   |-> <<NaN, Num(5), Num(1), Num(9), NaN>>,
     peaks |-> <<Peak(Num(7), Rat(1, 2), Num(2)),
                 Peak(Num(12), Num(1), Num(3)),
                 Peak(Num(20), Num(1), Num(2))>>]

\* one peak inside the band
WaveOne ==
    [amp   |-> <<NaN, Num(8), NaN>>,
     peaks |-> <<Peak(Num(10), Rat(3, 2), Num(2))>>]

\* two peaks inside the band, among edge peaks and one outside
WaveTwo ==
    [amp   |-> <<NaN, Num(1), Num(2), NaN>>,
     peaks |-> <<Peak(Num(8), Num(1), Num(2)),
                 Peak(Num(12), Num(5), Num(1)),
                 Peak(Num(11), Num(2), Num(4)),
                 Peak(Num(7), Num(3), Num(1)),
                 Peak(Num(25), Num(1), Num(2))>>]

\* three peaks inside the band and one outside
WaveThree ==
    [amp   |-> <<NaN, Num(4), Num(6), Num(7), NaN>>,
     peaks |-> <<Peak(Rat(15, 2), Num(1), Num(1)),
                 Peak(Num(9), Num(1), Num(2)),
                 Peak(Num(30), Num(1), Num(4)),
                 Peak(Num(9), Num(2), Num(2))>>]

\* rows of the epoch table: a waveform per EEG channel and the class label
EpochRows ==
    { [C3 |-> WaveOne,  Cz |-> WaveFlat,  C4 |-> WaveEdge,  event_type |-> 0],
      [C3 |-> WaveTwo,  Cz |-> WaveOne,   C4 |-> WaveFlat,  event_type |-> 1],
      [C3 |-> WaveEdge, Cz |-> WaveThree, C4 |-> WaveTwo,   event_type |-> 0],
      [C3 |-> WaveFlat, Cz |-> WaveEdge,  C4 |-> WaveThree, event_type |-> 1] }

EpochTables == UNION { [1..n -> EpochRows] : n \in 0..MaxTrials }

\* a feature table saved by the previous notebook: the label column y and
\* feature columns; with gaps, one column has a missing value in its first
\* row.  Its labels are unique and none is a label this notebook computes.
W1Table(m, gaps) ==
    [columns |-> <<"y", "C3_mean">> \o (IF gaps THEN <<"Cz_var">> ELSE <<>>),
     n       |-> m,
     data    |-> << [r \in 1..m |-> Num((r - 1) % 2)],
                    [r \in 1..m |-> Num(r)] >> \o
                 (IF gaps
                  THEN << [r \in 1..m |-> IF r = 1 THEN NaN ELSE Num(r)] >>
                  ELSE <<>>)]

W1Tables == { W1Table(m, g) : m \in 0..MaxSavedRows, g \in BOOLEAN }

-----------------------------------------------------------------------------
(* Feature builder *)

\* the instantaneous amplitude of a waveform in the band (neurodsp)
amp_by_time(sig) == sig.amp

\* getMeanFreqPSD, fm.add_data, fm.fit, fm.peak_params_
FitPeaks(sig) == sig.peaks

\* variant: the waveform is always read from the first trial
SignalAtFirst(df, c, k) == df[1][c]

\* eeg_epoch_full_df[c][k]: the waveform of channel c in trial k (0-based)
SignalAt(df, c, k) == df[k + 1][c]

\* variant: the loop stops one trial early
LoopRangeShort(df) == Len(df) - 1

\* range(len(df)): the number of iterations of the trial loop
LoopRange(df) == Len(df)

AmpKey(c) == c \o "_" \o StrTuple(alpha_range) \o "_inst_med"

CF_key(c) == c \o "_alpha_central_freq"

PW_key(c) == c \o "_alpha_power"

BW_key(c) == c \o "_alpha_band_width"

\* variant: the band taken with its edges
InAlphaInclusive(param) ==
    ~Less(param[1], Num(alpha_range[1])) /\ ~Greater(param[1], Num(alpha_range[2]))

\* (param[0] > alpha_range[0]) and (param[0] < alpha_range[1])
InAlpha(param) ==
    Greater(param[1], Num(alpha_range[1])) /\ Less(param[1], Num(alpha_range[2]))

\* variant: every fitted peak is kept
SelectAll(ps) == ps

\* the loop over peak_params that appends the peaks inside the band
RECURSIVE SelectAlpha(_)
SelectAlpha(ps) ==
    IF ps = <<>> THEN <<>>
    ELSE (IF InAlpha(Head(ps)) THEN <<Head(ps)>> ELSE <<>>)
         \o SelectAlpha(Tail(ps))

\* variant: the mean is taken even when nothing was selected
AlphaMeansNoFallback(sel) == MeanAxis0(sel)

\* variant: the zero triple is assigned whatever was selected
AlphaMeansAlwaysZero(sel) == <<Zero, Zero, Zero>>

\* the triple for the selected peaks: their mean, or zeros if there is none
AlphaMeans(sel) ==
    IF Len(sel) > 0 THEN MeanAxis0(sel) ELSE <<Zero, Zero, Zero>>

\* variant: the alpha-median table is left out
FinalFramesNoAlpha(fdf) == <<W1_feature_df, fdf>>

\* variant: the intermediate table, which already holds the alpha-median
\* columns, is taken as the base
FinalFramesOnIntermediate(fdf) == <<feature_df, alpha_med_df, fdf>>

\* variant: only several selected peaks count as an alpha peak
HasAlphaMultiple(sel) == Len(sel) > 1

\* len(peak_params_alpha) > 0: the branch that counts the pair
HasAlpha(sel) == Len(sel) > 0

\* the frames of the final concatenation
FinalFrames(fdf) == <<W1_feature_df, alpha_med_df, fdf>>

-----------------------------------------------------------------------------
(* Model trainer *)

CountNaN(col) == Cardinality({r \in 1..Len(col) : IsNaN(col[r])})

\* feature_df.isnull().mean(): per column the fraction of missing entries
NullFraction(df, k) == Rat(CountNaN(df.data[k]), df.n)

\* variant: a column counts as null only when most of it is missing
NullColsMajority(df) ==
    LET RECURSIVE From(_)
        From(k) ==
            IF k > Len(df.columns) THEN <<>>
            ELSE (IF Greater(NullFraction(df, k), Rat(1, 2))
                  THEN <<df.columns[k]>> ELSE <<>>) \o From(k + 1)
    IN From(1)

\* null_df[null_df["null %"] > 0].index
NullCols(df) ==
    LET RECURSIVE From(_)
        From(k) ==
            IF k > Len(df.columns) THEN <<>>
            ELSE (IF Greater(NullFraction(df, k), Zero)
                  THEN <<df.columns[k]>> ELSE <<>>) \o From(k + 1)
    IN From(1)

InSeq(x, s) == \E k \in 1..Len(s) : s[k] = x

\* df.drop(labels, axis=1): every column carrying one of the labels goes
Drop(df, labels) ==
    LET RECURSIVE Keep(_)
        Keep(k) ==
            IF k > Len(df.columns) THEN <<>>
            ELSE (IF InSeq(df.columns[k], labels) THEN <<>> ELSE <<k>>)
                 \o Keep(k + 1)
        kept == Keep(1)
    IN [columns |-> [j \in 1..Len(kept) |-> df.columns[kept[j]]],
        n       |-> df.n,
        data    |-> [j \in 1..Len(kept) |-> df.data[kept[j]]]]

\* train_test_split defaults: test_size = 0.25, n_test = ceil(0.25 * n)
NTest(n) == (n + 3) \div 4

NTrain(n) == n - NTest(n)

-----------------------------------------------------------------------------
(* The run *)

Init ==
    /\ pc = "load_epochs"
    /\ error = "none"
    /\ eeg_epoch_full_df = <<>>
    /\ W1_feature_df = EmptyDF
    /\ i = 0
    /\ ch = 1
    /\ alpha_amps = EmptyDict
    /\ alpha_med_df = EmptyDF
    /\ feature_df = EmptyDF
    /\ num_with_alpha = 0
    /\ num_without_alpha = 0
    /\ fooof_parameters = EmptyDict
    /\ peak_params = <<>>
    /\ peak_params_alpha = <<>>
    /\ means = <<>>
    /\ fooof_parameters_df = EmptyDF
    /\ W2_file = <<>>
    /\ null_cols = <<>>
    /\ cleaned_feature_df = EmptyDF
    /\ train_rows = {}
    /\ test_rows = {}

\* eeg_epoch_full_df = pd.read_pickle(epoch_df_filename)
LoadEpochsFrom(tables) ==
    /\ pc = "load_epochs"
    /\ \E tbl \in tables : eeg_epoch_full_df' = tbl
    /\ pc' = "load_w1"
    /\ UNCHANGED <<error, W1_feature_df, i, ch, alpha_amps, alpha_med_df,
                   feature_df, num_with_alpha, num_without_alpha,
                   fooof_parameters, peak_params, peak_params_alpha, means,
                   fooof_parameters_df, W2_file, null_cols,
                   cleaned_feature_df, train_rows, test_rows>>

LoadEpochs == LoadEpochsFrom(EpochTables)

\* W1_feature_df = pd.read_pickle(W1_feature_df_filename); then the alpha
\* cell starts with an empty alpha_amps
LoadW1 ==
    /\ pc = "load_w1"
    /\ \E tbl \in W1Tables : W1_feature_df' = tbl
    /\ alpha_amps' = EmptyDict
    /\ i' = 0
    /\ ch' = 1
    /\ pc' = "alpha_loop"
    /\ UNCHANGED <<error, eeg_epoch_full_df, alpha_med_df, feature_df,
                   num_with_alpha, num_without_alpha, fooof_parameters,
                   peak_params, peak_params_alpha, means, fooof_parameters_df,
                   W2_file, null_cols, cleaned_feature_df, train_rows,
                   test_rows>>

\* advance the (trial, channel) loop variables
NextPair ==
    IF ch < Len(eeg_chans)
    THEN ch' = ch + 1 /\ i' = i
    ELSE ch' = 1 /\ i' = i + 1

\* one (trial, channel) iteration of the alpha amplitude median loop
AlphaStep ==
    /\ pc = "alpha_loop"
    /\ i < LoopRange(eeg_epoch_full_df)
    /\ LET c   == eeg_chans[ch]
           amp == amp_by_time(SignalAt(eeg_epoch_full_df, c, i))
           key == AmpKey(c)
       IN alpha_amps' =
              DictAppend(DictSetDefault(alpha_amps, key), key, NanMedian(amp))
    /\ NextPair
    /\ UNCHANGED <<pc, error, eeg_epoch_full_df, W1_feature_df, alpha_med_df,
                   feature_df, num_with_alpha, num_without_alpha,
                   fooof_parameters, peak_params, peak_params_alpha, means,
                   fooof_parameters_df, W2_file, null_cols,
                   cleaned_feature_df, train_rows, test_rows>>

\* after the loop: alpha_med_df and the intermediate feature_df
AlphaConcat ==
    /\ pc = "alpha_loop"
    /\ ~(i < LoopRange(eeg_epoch_full_df))
    /\ alpha_med_df' = DataFrame(alpha_amps)
    /\ feature_df' = Concat(<<W1_feature_df, alpha_med_df'>>)
    /\ pc' = "demo"
    /\ UNCHANGED <<error, eeg_epoch_full_df, W1_feature_df, i, ch, alpha_amps,
                   num_with_alpha, num_without_alpha, fooof_parameters,
                   peak_params, peak_params_alpha, means, fooof_parameters_df,
                   W2_file, null_cols, cleaned_feature_df, train_rows,
                   test_rows>>

\* variant: the demonstration cells never fail
DemoOkAlways == TRUE

\* the demonstration cells read eeg_epoch_full_df['Cz'][0] and, for each
\* event type, the stacked PSDs of that type's channels: a KeyError if the
\* table is empty or an event type has no trial
DemoOk ==
    /\ Len(eeg_epoch_full_df) > 0
    /\ \A t \in {0, 1} :
          \E r \in 1..Len(eeg_epoch_full_df) : eeg_epoch_full_df[r].event_type = t

DemoCells ==
    /\ pc = "demo"
    /\ IF DemoOk
       THEN pc' = "fooof_init" /\ error' = error
       ELSE pc' = "aborted" /\ error' = "KeyError"
    /\ UNCHANGED <<eeg_epoch_full_df, W1_feature_df, i, ch, alpha_amps,
                   alpha_med_df, feature_df, num_with_alpha, num_without_alpha,
                   fooof_parameters, peak_params, peak_params_alpha, means,
                   fooof_parameters_df, W2_file, null_cols,
                   cleaned_feature_df, train_rows, test_rows>>

\* the head of the FOOOF cell: counters and accumulator
FooofInit ==
    /\ pc = "fooof_init"
    /\ num_with_alpha' = 0
    /\ num_without_alpha' = 0
    /\ fooof_parameters' = EmptyDict
    /\ i' = 0
    /\ ch' = 1
    /\ pc' = "fooof_loop"
    /\ UNCHANGED <<error, eeg_epoch_full_df, W1_feature_df, alpha_amps,
                   alpha_med_df, feature_df, peak_params, peak_params_alpha,
                   means, fooof_parameters_df, W2_file, null_cols,
                   cleaned_feature_df, train_rows, test_rows>>

\* one (trial, channel) iteration of the FOOOF loop
FooofStep ==
    /\ pc = "fooof_loop"
    /\ i < LoopRange(eeg_epoch_full_df)
    /\ LET c   == eeg_chans[ch]
           d0  == DictSetDefault(DictSetDefault(DictSetDefault(
                      fooof_parameters, CF_key(c)), PW_key(c)), BW_key(c))
           pp  == FitPeaks(SignalAt(eeg_epoch_full_df, c, i))
           sel == SelectAlpha(pp)
           m   == AlphaMeans(sel)
       IN /\ peak_params' = pp
          /\ peak_params_alpha' = sel
          /\ means' = m
          /\ IF HasAlpha(sel)
             THEN /\ num_with_alpha' = num_with_alpha + 1
                  /\ num_without_alpha' = num_without_alpha
             ELSE /\ num_without_alpha' = num_without_alpha + 1
                  /\ num_with_alpha' = num_with_alpha
          /\ fooof_parameters' =
                 DictAppend(DictAppend(DictAppend(d0,
                     CF_key(c), m[1]), PW_key(c), m[2]), BW_key(c), m[3])
    /\ NextPair
    /\ UNCHANGED <<pc, error, eeg_epoch_full_df, W1_feature_df, alpha_amps,
                   alpha_med_df, feature_df, fooof_parameters_df, W2_file,
                   null_cols, cleaned_feature_df, train_rows, test_rows>>

FooofDone ==
    /\ pc = "fooof_loop"
    /\ ~(i < LoopRange(eeg_epoch_full_df))
    /\ pc' = "concat"
    /\ UNCHANGED <<error, eeg_epoch_full_df, W1_feature_df, i, ch, alpha_amps,
                   alpha_med_df, feature_df, num_with_alpha, num_without_alpha,
                   fooof_parameters, peak_params, peak_params_alpha, means,
                   fooof_parameters_df, W2_file, null_cols,
                   cleaned_feature_df, train_rows, test_rows>>

\* num_with_alpha / (num_with_alpha + num_without_alpha), the value printed
AlphaFraction == Rat(num_with_alpha, num_with_alpha + num_without_alpha)

\* the Concatenate cell: the combined table, then the printed fraction
ConcatFinal ==
    /\ pc = "concat"
    /\ fooof_parameters_df' = DataFrame(fooof_parameters)
    /\ feature_df' = Concat(FinalFrames(fooof_parameters_df'))
    /\ IF num_with_alpha + num_without_alpha = 0
       THEN pc' = "aborted" /\ error' = "ZeroDivisionError"
       ELSE pc' = "save" /\ error' = error
    /\ UNCHANGED <<eeg_epoch_full_df, W1_feature_df, i, ch, alpha_amps,
                   alpha_med_df, num_with_alpha, num_without_alpha,
                   fooof_parameters, peak_params, peak_params_alpha, means,
                   W2_file, null_cols, cleaned_feature_df, train_rows,
                   test_rows>>

\* feature_df.to_pickle("W2_feature_df.pkl")
SavePickle ==
    /\ pc = "save"
    /\ W2_file' = PickleDumps(feature_df)
    /\ pc' = "load_w2"
    /\ UNCHANGED <<error, eeg_epoch_full_df, W1_feature_df, i, ch, alpha_amps,
                   alpha_med_df, feature_df, num_with_alpha, num_without_alpha,
                   fooof_parameters, peak_params, peak_params_alpha, means,
                   fooof_parameters_df, null_cols, cleaned_feature_df,
                   train_rows, test_rows>>

\* feature_df = pickle.load(open("W2_feature_df.pkl", "rb"))
LoadW2 ==
    /\ pc = "load_w2"
    /\ IF W2_file = <<>>
       THEN pc' = "aborted" /\ error' = "FileNotFoundError"
            /\ feature_df' = feature_df
       ELSE pc' = "null_check" /\ error' = error
            /\ feature_df' = PickleLoads(W2_file)
    /\ UNCHANGED <<eeg_epoch_full_df, W1_feature_df, i, ch, alpha_amps,
                   alpha_med_df, num_with_alpha, num_without_alpha,
                   fooof_parameters, peak_params, peak_params_alpha, means,
                   fooof_parameters_df, W2_file, null_cols,
                   cleaned_feature_df, train_rows, test_rows>>

\* the "Check for null" cell
NullCheck ==
    /\ pc = "null_check"
    /\ null_cols' = NullCols(feature_df)
    /\ pc' = "clean"
    /\ UNCHANGED <<error, eeg_epoch_full_df, W1_feature_df, i, ch, alpha_amps,
                   alpha_med_df, feature_df, num_with_alpha, num_without_alpha,
                   fooof_parameters, peak_params, peak_params_alpha, means,
                   fooof_parameters_df, W2_file, cleaned_feature_df,
                   train_rows, test_rows>>

\* cleaned_feature_df = feature_df.drop(list(null_cols.index), axis=1)
Clean ==
    /\ pc = "clean"
    /\ cleaned_feature_df' = Drop(feature_df, null_cols)
    /\ pc' = "split"
    /\ UNCHANGED <<error, eeg_epoch_full_df, W1_feature_df, i, ch, alpha_amps,
                   alpha_med_df, feature_df, num_with_alpha, num_without_alpha,
                   fooof_parameters, peak_params, peak_params_alpha, means,
                   fooof_parameters_df, W2_file, null_cols, train_rows,
                   test_rows>>

\* train_test_split(cleaned_feature_df.drop("y", axis=1), cleaned_feature_df["y"]):
\* a random permutation of the rows, its first n_test rows the test partition
\* and the rest the train partition
Split ==
    /\ pc = "split"
    /\ LET n == cleaned_feature_df.n
       IN IF ~InSeq("y", cleaned_feature_df.columns)
          THEN /\ pc' = "aborted" /\ error' = "KeyError"
               /\ UNCHANGED <<train_rows, test_rows>>
          ELSE IF NTrain(n) = 0
          THEN /\ pc' = "aborted" /\ error' = "ValueError"
               /\ UNCHANGED <<train_rows, test_rows>>
          ELSE /\ \E T \in SUBSET (1..n) :
                      /\ Cardinality(T) = NTest(n)
                      /\ test_rows' = T
                      /\ train_rows' = (1..n) \ T
               /\ pc' = "done" /\ error' = error
    /\ UNCHANGED <<eeg_epoch_full_df, W1_feature_df, i, ch, alpha_amps,
                   alpha_med_df, feature_df, num_with_alpha, num_without_alpha,
                   fooof_parameters, peak_params, peak_params_alpha, means,
                   fooof_parameters_df, W2_file, null_cols,
                   cleaned_feature_df>>

Next ==
    \/ LoadEpochs
    \/ LoadW1
    \/ AlphaStep
    \/ AlphaConcat
    \/ DemoCells
    \/ FooofInit
    \/ FooofStep
    \/ FooofDone
    \/ ConcatFinal
    \/ SavePickle
    \/ LoadW2
    \/ NullCheck
    \/ Clean
    \/ Split

Spec == Init /\ [][Next]_vars

-----------------------------------------------------------------------------
(* The same run over epoch tables whose fitted peak lists range over a grid *)
(* of peaks: center frequencies below, on, inside and above the band, with  *)
(* zero and non-zero power and bandwidth.  The grid is wider than what the  *)
(* fit returns (it holds the peak at 0 Hz with zero power and bandwidth).   *)

ProbePeaks ==
    { Peak(cf, pw, bw) :
        cf \in {Num(0), Num(7), Rat(15, 2), Num(10), Num(12), Num(20)},
        pw \in {Num(0), Num(1)},
        bw \in {Num(0), Num(2)} }

\* the peak lists of at most two grid peaks
ProbePeakLists ==
    {<<>>} \cup { <<p>> : p \in ProbePeaks }
           \cup { <<p, q>> : p \in ProbePeaks, q \in ProbePeaks }

ProbeWave(ps) == [amp |-> <<NaN, Num(2), NaN>>, peaks |-> ps]

ProbeRow(ps, t) ==
    [C3 |-> ProbeWave(ps), Cz |-> ProbeWave(ps), C4 |-> ProbeWave(ps),
     event_type |-> t]

\* two trials, one of each event type, every channel with the same fit
ProbeTables == { <<ProbeRow(ps, 0), ProbeRow(ps, 1)>> : ps \in ProbePeakLists }

LoadProbeEpochs == LoadEpochsFrom(ProbeTables)

NextProbe ==
    \/ LoadProbeEpochs
    \/ LoadW1
    \/ AlphaStep
    \/ AlphaConcat
    \/ DemoCells
    \/ FooofInit
    \/ FooofStep
    \/ FooofDone
    \/ ConcatFinal
    \/ SavePickle
    \/ LoadW2
    \/ NullCheck
    \/ Clean
    \/ Split

SpecProbe == Init /\ [][NextProbe]_vars

-----------------------------------------------------------------------------
(* Properties of the peak selection and of the emitted triple *)

\* 7 < cf < 12 for a center frequency cf = <<numerator, denominator>>
StrictlyInside(cf) == cf[2] > 0 /\ 7 * cf[2] < cf[1] /\ cf[1] < 12 * cf[2]

\* the step taken is one (trial, channel) iteration of the FOOOF loop
IsFooofIteration == pc = "fooof_loop" /\ <<i, ch>>' # <<i, ch>>

\* length of a dict's list, 0 while the key is absent
ListLen(d, key) == IF DictHas(d, key) THEN Len(DictGet(d, key)) ELSE 0

LastOf(s) == s[Len(s)]

\* the step appended exactly the triple t to the three lists of channel c
Emitted(c, t) ==
    /\ \A key \in {CF_key(c), PW_key(c), BW_key(c)} :
          /\ DictHas(fooof_parameters', key)
          /\ Len(DictGet(fooof_parameters', key)) = ListLen(fooof_parameters, key) + 1
    /\ LastOf(DictGet(fooof_parameters', CF_key(c))) = t[1]
    /\ LastOf(DictGet(fooof_parameters', PW_key(c))) = t[2]
    /\ LastOf(DictGet(fooof_parameters', BW_key(c))) = t[3]

\* C1: a fitted peak is selected if and only if its center frequency cf
\* satisfies 7 < cf < 12; a peak at exactly 7 or exactly 12 is never selected
\* and every peak strictly inside the band is selected.
C1_StrictBandSelection ==
    LET inside == {k \in 1..Len(peak_params) : StrictlyInside(peak_params[k][1])}
    IN /\ Len(peak_params_alpha) = Cardinality(inside)
       /\ \A k \in 1..Len(peak_params) :
             (k \in inside) <=> InSeq(peak_params[k], peak_params_alpha)
       /\ \A s \in 1..Len(peak_params_alpha) :
             /\ InSeq(peak_params_alpha[s], peak_params)
             /\ peak_params_alpha[s][1] # Num(7)
             /\ peak_params_alpha[s][1] # Num(12)

\* a fit with peaks on both band edges and peaks inside: only the inside ones
\* were selected
C1_Witness ==
    /\ \E k \in 1..Len(peak_params) : peak_params[k][1] = Num(7)
    /\ \E k \in 1..Len(peak_params) : peak_params[k][1] = Num(12)
    /\ \E k \in 1..Len(peak_params) : peak_params[k][1] = Num(25)
    /\ Len(peak_params_alpha) = 2
    /\ peak_params_alpha[1][1] = Num(8)
    /\ peak_params_alpha[2][1] = Num(11)

\* C2: when no fitted peak of the (trial, channel) pair has its center
\* frequency strictly inside (7, 12), the empty peak list included, the triple
\* appended to the channel's columns is (0, 0, 0), num_without_alpha grows by
\* exactly 1 and num_with_alpha is unchanged.
C2_NoPeakFallback ==
    [][ IsFooofIteration =>
          ( (\A k \in 1..Len(peak_params') : ~StrictlyInside(peak_params'[k][1]))
            => /\ Emitted(eeg_chans[ch], <<Num(0), Num(0), Num(0)>>)
               /\ num_without_alpha' = num_without_alpha + 1
               /\ num_with_alpha' = num_with_alpha ) ]_vars

\* a pair whose fit has peaks, none of them inside the band, got the zero triple
C2_Witness ==
    /\ pc = "fooof_loop"
    /\ Len(peak_params) = 3
    /\ peak_params_alpha = <<>>
    /\ means = <<Num(0), Num(0), Num(0)>>
    /\ num_without_alpha > 0
    /\ \E c \in {"C3", "Cz", "C4"} :
          /\ DictHas(fooof_parameters, CF_key(c))
          /\ DictGet(fooof_parameters, CF_key(c)) # <<>>
          /\ LastOf(DictGet(fooof_parameters, CF_key(c))) = Num(0)

\* the sum of component j over the peaks of ps strictly inside the band
RECURSIVE SumInside(_, _)
SumInside(ps, j) ==
    IF ps = <<>> THEN Num(0)
    ELSE IF StrictlyInside(Head(ps)[1])
         THEN Add(Head(ps)[j], SumInside(Tail(ps), j))
         ELSE SumInside(Tail(ps), j)

\* v = s / k for rationals v, s and an integer k >= 1
IsQuotient(v, s, k) == v[2] > 0 /\ s[2] > 0 /\ v[1] * s[2] * k = s[1] * v[2]

\* C3: when k >= 1 fitted peaks qualify, the emitted triple is the
\* element-wise arithmetic mean of the qualifying peaks' triples (for k = 1
\* that peak's triple unchanged), peaks outside the band do not contribute,
\* and num_with_alpha grows by exactly 1 whatever k is.
C3_MeanOfQualifying ==
    [][ IsFooofIteration =>
          LET fitted == peak_params'
              inside == {k \in 1..Len(fitted) : StrictlyInside(fitted[k][1])}
              q      == Cardinality(inside)
          IN q >= 1 =>
               /\ \E t \in {means'} :
                     /\ Emitted(eeg_chans[ch], t)
                     /\ \A j \in 1..3 : IsQuotient(t[j], SumInside(fitted, j), q)
                     /\ q = 1 => \A k \in inside : t = fitted[k]
               /\ num_with_alpha' = num_with_alpha + 1
               /\ num_without_alpha' = num_without_alpha ]_vars

\* two of five fitted peaks qualified and their mean (19/2, 3/2, 3) was emitted
C3_Witness ==
    /\ pc = "fooof_loop"
    /\ Len(peak_params) = 5
    /\ Len(peak_params_alpha) = 2
    /\ means = <<Rat(19, 2), Rat(3, 2), Num(3)>>
    /\ num_with_alpha > 0
    /\ \E c \in {"C3", "Cz", "C4"} :
          /\ DictHas(fooof_parameters, CF_key(c))
          /\ DictGet(fooof_parameters, CF_key(c)) # <<>>
          /\ LastOf(DictGet(fooof_parameters, CF_key(c))) = Rat(19, 2)

-----------------------------------------------------------------------------
(* Properties of the feature table *)

NumTrials == Len(eeg_epoch_full_df)

Channels == {"C3", "Cz", "C4"}

\* the alpha amplitude median of each input waveform, worked out by hand
ExpectedMedian(w) ==
    CASE w = WaveFlat  -> Num(3)
      [] w = WaveEdge  -> Num(5)
      [] w = WaveOne   -> Num(8)
      [] w = WaveTwo   -> Rat(3, 2)
      [] w = WaveThree -> Num(6)

\* the peak-parameter triple of each input waveform, worked out by hand
ExpectedTriple(w) ==
    CASE w = WaveFlat  -> <<Num(0), Num(0), Num(0)>>
      [] w = WaveEdge  -> <<Num(0), Num(0), Num(0)>>
      [] w = WaveOne   -> <<Num(10), Rat(3, 2), Num(2)>>
      [] w = WaveTwo   -> <<Rat(19, 2), Rat(3, 2), Num(3)>>
      [] w = WaveThree -> <<Rat(17, 2), Rat(4, 3), Rat(5, 3)>>

AlphaLoopFinished == pc \notin {"load_epochs", "load_w1", "alpha_loop"}

FooofLoopFinished ==
    pc \in {"concat", "save", "load_w2", "null_check", "clean", "split", "done"}

\* every list of d has n entries and, for n >= 1, d has exactly `count` keys
ListsComplete(d, count, n) ==
    /\ \A k \in 1..Len(d.keys) : Len(d.vals[k]) = n
    /\ Len(d.keys) = (IF n = 0 THEN 0 ELSE count)

\* C4: after the feature-builder loops finish over an epoch table of N
\* trials, each of the 3 alpha-median columns and each of the 9 peak-parameter
\* columns has exactly N entries, and the i-th entry of a channel's column is
\* the value computed from that channel's waveform of the i-th epoch.  (For
\* N = 0 the loops create no column at all.)
C4_RowsAlignWithEpochs ==
    /\ AlphaLoopFinished =>
          /\ ListsComplete(alpha_amps, 3, NumTrials)
          /\ \A c \in Channels : \A r \in 1..NumTrials :
                /\ DictHas(alpha_amps, AmpKey(c))
                /\ DictGet(alpha_amps, AmpKey(c))[r]
                      = ExpectedMedian(eeg_epoch_full_df[r][c])
    /\ FooofLoopFinished =>
          /\ ListsComplete(fooof_parameters, 9, NumTrials)
          /\ \A c \in Channels : \A r \in 1..NumTrials :
                /\ DictHas(fooof_parameters, CF_key(c))
                /\ DictHas(fooof_parameters, PW_key(c))
                /\ DictHas(fooof_parameters, BW_key(c))
                /\ << DictGet(fooof_parameters, CF_key(c))[r],
                      DictGet(fooof_parameters, PW_key(c))[r],
                      DictGet(fooof_parameters, BW_key(c))[r] >>
                      = ExpectedTriple(eeg_epoch_full_df[r][c])

\* both loops have finished over three trials whose rows differ
C4_Witness ==
    /\ pc = "concat"
    /\ NumTrials = 3
    /\ eeg_epoch_full_df[1] # eeg_epoch_full_df[2]
    /\ eeg_epoch_full_df[2] # eeg_epoch_full_df[3]
    /\ Len(alpha_amps.keys) = 3
    /\ Len(fooof_parameters.keys) = 9
    /\ Len(DictGet(fooof_parameters, "Cz_alpha_power")) = 3

\* the table `out` holds every column of `frame` under its label with its
\* values in their original rows
HoldsColumnsOf(out, frame) ==
    \A k \in 1..Len(frame.columns) :
        \E j \in 1..Len(out.columns) :
            /\ out.columns[j] = frame.columns[k]
            /\ out.data[j] = frame.data[k]

LabelSet(df) == {df.columns[k] : k \in 1..Len(df.columns)}

\* the final combined table is in memory as it was assembled
FinalTableInMemory == pc \in {"save", "load_w2"}

\* C5: concatenating the saved feature table, the alpha-median table and the
\* peak-parameter table, all with N rows in the same order, yields a table
\* with exactly N rows whose column set is the union of the inputs' columns,
\* each input's values left in their original rows.
C5_EqualRowsConcat ==
    ( /\ FinalTableInMemory
      /\ W1_feature_df.n = NumTrials
      /\ alpha_med_df.n = NumTrials
      /\ fooof_parameters_df.n = NumTrials )
    => /\ feature_df.n = NumTrials
       /\ \A k \in 1..Len(feature_df.data) : Len(feature_df.data[k]) = NumTrials
       /\ LabelSet(feature_df) = LabelSet(W1_feature_df)
              \cup LabelSet(alpha_med_df) \cup LabelSet(fooof_parameters_df)
       /\ HoldsColumnsOf(feature_df, W1_feature_df)
       /\ HoldsColumnsOf(feature_df, alpha_med_df)
       /\ HoldsColumnsOf(feature_df, fooof_parameters_df)

\* three inputs of three rows each were concatenated into fifteen columns
C5_Witness ==
    /\ pc = "save"
    /\ NumTrials = 3
    /\ W1_feature_df.n = 3
    /\ Len(W1_feature_df.columns) = 3
    /\ Len(alpha_med_df.columns) = 3
    /\ Len(fooof_parameters_df.columns) = 9
    /\ feature_df.n = 3
    /\ Len(feature_df.columns) = 15

\* C6: when the tables being concatenated do not all have the same number of
\* rows, the assembly step raises an explicit error and produces (and
\* persists) no combined table.
C6_MismatchRaises ==
    ( /\ pc \notin {"load_epochs", "load_w1"}
      /\ W1_feature_df.n # NumTrials )
    => /\ pc \notin {"save", "load_w2", "null_check", "clean", "split", "done"}
       /\ W2_file = <<>>

Kinds == {"median", "central_freq", "power", "band_width"}

\* the label of the column of a (channel, feature kind) pair
ExpectedLabel(c, kind) ==
    CASE kind = "median"       -> c \o "_(7, 12)_inst_med"
      [] kind = "central_freq" -> c \o "_alpha_central_freq"
      [] kind = "power"        -> c \o "_alpha_power"
      [] kind = "band_width"   -> c \o "_alpha_band_width"

\* the label the notebook builds for a (channel, feature kind) pair
BuiltLabel(c, kind) ==
    CASE kind = "median"       -> AmpKey(c)
      [] kind = "central_freq" -> CF_key(c)
      [] kind = "power"        -> PW_key(c)
      [] kind = "band_width"   -> BW_key(c)

Occurrences(df, label) ==
    Cardinality({j \in 1..Len(df.columns) : df.columns[j] = label})

\* C7: in the persisted combined feature table every column name is unique;
\* each newly computed column's name is determined by exactly one (channel,
\* feature kind) pair, distinct pairs never map to the same name, and the
\* alpha-median columns appear once.
C7_UniqueColumnNames ==
    /\ \A p, q \in Channels \X Kinds :
          /\ BuiltLabel(p[1], p[2]) = ExpectedLabel(p[1], p[2])
          /\ p # q => BuiltLabel(p[1], p[2]) # BuiltLabel(q[1], q[2])
    /\ W2_file # <<>> =>
          /\ \A a, b \in 1..Len(feature_df.columns) :
                a # b => feature_df.columns[a] # feature_df.columns[b]
          /\ \A p \in Channels \X Kinds :
                Occurrences(feature_df, ExpectedLabel(p[1], p[2])) = 1
          /\ \A j \in 1..Len(feature_df.columns) :
                \/ feature_df.columns[j] \in LabelSet(W1_feature_df)
                \/ Cardinality({p \in Channels \X Kinds :
                       feature_df.columns[j] = ExpectedLabel(p[1], p[2])}) = 1

\* a combined table with all twelve computed columns has been persisted
C7_Witness ==
    /\ W2_file # <<>>
    /\ pc = "load_w2"
    /\ Len(feature_df.columns) = 15
    /\ Occurrences(feature_df, "C3_(7, 12)_inst_med") = 1
    /\ Occurrences(feature_df, "C4_alpha_band_width") = 1

HasMissing(col) == \E r \in 1..Len(col) : col[r] = NaN

CleaningDone ==
    \/ pc \in {"split", "done"}
    \/ pc = "aborted" /\ W2_file # <<>>

\* C8: the cleaned table contains exactly those columns of the assembled
\* table that have no missing value in any row, the row count is unchanged by
\* cleaning, and the train/test split assigns every row to exactly one of the
\* two partitions.
C8_CleanAndSplit ==
    /\ CleaningDone =>
          LET kept == {j \in 1..Len(feature_df.columns) :
                          ~HasMissing(feature_df.data[j])}
          IN /\ cleaned_feature_df.n = feature_df.n
             /\ Len(cleaned_feature_df.columns) = Cardinality(kept)
             /\ \A j \in 1..Len(feature_df.columns) :
                   (j \in kept) <=>
                       \E k \in 1..Len(cleaned_feature_df.columns) :
                           /\ cleaned_feature_df.columns[k] = feature_df.columns[j]
                           /\ cleaned_feature_df.data[k] = feature_df.data[j]
    /\ pc = "done" =>
          /\ train_rows \cup test_rows = 1..cleaned_feature_df.n
          /\ train_rows \cap test_rows = {}

\* a table with a column holding a missing value was cleaned and split
C8_Witness ==
    /\ pc = "done"
    /\ feature_df.n = 3
    /\ null_cols = <<"Cz_var">>
    /\ Len(feature_df.columns) = 15
    /\ Len(cleaned_feature_df.columns) = 14
    /\ Cardinality(train_rows) = 2
    /\ Cardinality(test_rows) = 1

\* the component a cell belongs to: 1 Epoch Store (and the saved-table load),
\* 2 Spectral Feature Builder (the alpha cell ends with an intermediate table
\* that the final concatenation replaces),
\* 3 Feature Table Assembler, 4 Model Trainer,
\* 5 the run has ended on an exception
StageOf(p) ==
    CASE p \in {"load_epochs", "load_w1"} -> 1
      [] p \in {"alpha_loop", "demo", "fooof_init", "fooof_loop"} -> 2
      [] p \in {"concat", "save"} -> 3
      [] p \in {"load_w2", "null_check", "clean", "split", "done"} -> 4
      [] p = "aborted" -> 5

\* every (trial, channel) pair has been processed by both loops
AllPairsProcessed ==
    /\ NumTrials >= 1
    /\ \A p \in Channels \X Kinds :
          /\ DictHas(IF p[2] = "median" THEN alpha_amps ELSE fooof_parameters,
                     ExpectedLabel(p[1], p[2]))
          /\ Len(DictGet(IF p[2] = "median" THEN alpha_amps ELSE fooof_parameters,
                         ExpectedLabel(p[1], p[2]))) = NumTrials
    /\ num_with_alpha + num_without_alpha = 3 * NumTrials

\* the table holds every computed feature column
HasAllComputedColumns(df) ==
    \A p \in Channels \X Kinds : ExpectedLabel(p[1], p[2]) \in LabelSet(df)

\* C10: the stages execute strictly in the order Epoch Store load, Spectral
\* Feature Builder, Feature Table Assembler, Model Trainer, with no overlap:
\* assembly of the final table starts only after the last (trial, channel)
\* pair has been processed, the combined table is persisted before the
\* trainer loads it, and the trainer never reads a table that lacks a
\* computed feature column.
C10_StageOrder ==
    /\ [][StageOf(pc') >= StageOf(pc)]_vars
    /\ [](StageOf(pc) = 3 => AllPairsProcessed)
    /\ [](StageOf(pc) = 4 =>
             /\ W2_file # <<>>
             /\ HasAllComputedColumns(PickleLoads(W2_file))
             /\ pc # "load_w2" => HasAllComputedColumns(feature_df))

\* a run went through all four stages
C10_Witness ==
    /\ pc = "done"
    /\ error = "none"
    /\ NumTrials = 3
    /\ W2_file # <<>>
    /\ Len(cleaned_feature_df.columns) >= 13

-----------------------------------------------------------------------------
(* Properties of the zero fallback and of the counters *)

HasQualifyingPeak(ps) == \E k \in 1..Len(ps) : StrictlyInside(ps[k][1])

\* C11 (as amended): a (0, 0, 0) triple is emitted only by the no-peak
\* fallback.  Whenever at least one fitted peak qualifies, the emitted center
\* frequency lies strictly inside (7, 12), so it is not 0, and an entry of a
\* central-frequency column is 0 exactly when no peak qualified for its
\* (trial, channel) pair: the output determines whether a peak was found.
C11_ZeroOnlyFromFallback ==
    /\ Len(peak_params_alpha) > 0 =>
          /\ StrictlyInside(means[1])
          /\ means # <<Num(0), Num(0), Num(0)>>
    /\ \A c \in Channels :
          DictHas(fooof_parameters, CF_key(c)) =>
             \A r \in 1..Len(DictGet(fooof_parameters, CF_key(c))) :
                 (DictGet(fooof_parameters, CF_key(c))[r] = Num(0))
                    <=> ~HasQualifyingPeak(eeg_epoch_full_df[r][c].peaks)

\* a qualifying peak with zero power and zero bandwidth, next to a peak at
\* 0 Hz, was emitted with its center frequency
C11_Witness ==
    /\ pc = "fooof_loop"
    /\ peak_params = <<Peak(Num(0), Num(0), Num(0)), Peak(Num(10), Num(0), Num(0))>>
    /\ peak_params_alpha = <<Peak(Num(10), Num(0), Num(0))>>
    /\ means = <<Num(10), Num(0), Num(0)>>
    /\ num_with_alpha > 0

\* the last iteration took the no-peak fallback
FallbackTaken ==
    /\ pc = "fooof_loop"
    /\ num_without_alpha > 0
    /\ peak_params_alpha = <<>>
    /\ means = <<Num(0), Num(0), Num(0)>>

\* C11 (as stated): the triple the fallback produces is indistinguishable
\* from a triple produced for a pair with a detected peak: whenever the
\* fallback has emitted (0, 0, 0), some fitted peak list with at least one
\* qualifying peak yields that same triple.
C11_ZeroTripleAmbiguous ==
    FallbackTaken =>
        \E ps \in ProbePeakLists :
            /\ HasQualifyingPeak(ps)
            /\ AlphaMeans(SelectAlpha(ps)) = means

\* the (channel, row) entries of the central-frequency lists
CFEntries ==
    { e \in Channels \X (1..NumTrials) :
        e[2] <= ListLen(fooof_parameters, CF_key(e[1])) }

\* the number of (trial, channel) pairs the FOOOF loop has completed
PairsProcessed == 3 * i + (ch - 1)

CountersConsistent ==
    /\ num_with_alpha + num_without_alpha = PairsProcessed
    /\ \A c \in Channels :
          /\ ListLen(fooof_parameters, CF_key(c)) = ListLen(fooof_parameters, PW_key(c))
          /\ ListLen(fooof_parameters, PW_key(c)) = ListLen(fooof_parameters, BW_key(c))
    /\ Cardinality(CFEntries) = PairsProcessed
    /\ num_without_alpha =
          Cardinality({ e \in CFEntries :
              ~HasQualifyingPeak(eeg_epoch_full_df[e[2]][e[1]].peaks) })
    /\ num_without_alpha =
          Cardinality({ e \in CFEntries :
              DictGet(fooof_parameters, CF_key(e[1]))[e[2]] = Num(0) })

\* C12: after every completed (trial, channel) iteration num_with_alpha +
\* num_without_alpha is the number of pairs processed so far, neither counter
\* ever decreases, the three lists of a channel have equal length, and
\* num_without_alpha is the number of central-frequency entries produced by
\* the fallback; at loop end the sum is 3 times the number of trials.
C12_CounterInvariant ==
    /\ [](pc = "fooof_loop" => CountersConsistent)
    /\ [](FooofLoopFinished =>
             /\ CountersConsistent
             /\ num_with_alpha + num_without_alpha = 3 * NumTrials)
    /\ [][ /\ num_with_alpha' >= num_with_alpha
           /\ num_without_alpha' >= num_without_alpha ]_vars

\* four pairs processed, two with and two without an alpha peak
C12_Witness ==
    /\ pc = "fooof_loop"
    /\ i = 1
    /\ ch = 2
    /\ num_with_alpha = 2
    /\ num_without_alpha = 2
    /\ Len(DictGet(fooof_parameters, "C3_alpha_central_freq")) = 2
    /\ Len(DictGet(fooof_parameters, "Cz_alpha_band_width")) = 1

-----------------------------------------------------------------------------
(* Properties of a run whose inputs differ in row count *)

SavedRows == W1_feature_df.n

FinalTableBuilt ==
    \/ pc \in {"save", "load_w2", "null_check", "clean", "split", "done"}
    \/ pc = "aborted" /\ W2_file # <<>>

ComputedLabels ==
    { ExpectedLabel(p[1], p[2]) : p \in Channels \X Kinds }

\* every column of df carrying one of the labels is missing in rows lo+1..hi
MissingInRows(df, labels, lo, hi) ==
    \A j \in 1..Len(df.columns) :
        df.columns[j] \in labels =>
            \A r \in (lo + 1)..hi : df.data[j][r] = NaN

\* C13: if the saved feature table has M rows and the epoch table N # M
\* rows (default row indexes), assembly raises no error, the combined table
\* has max(M, N) rows, every column of the shorter input is missing in the
\* extra rows, and the cleaning step removes all of that input's columns (the
\* computed features when M > N; the saved table's columns, the label y
\* among them, when M < N) without reporting the mismatch.
C13_SilentMismatch ==
    (FinalTableBuilt /\ SavedRows # NumTrials) =>
        LET hi      == IF SavedRows > NumTrials THEN SavedRows ELSE NumTrials
            lo      == IF SavedRows > NumTrials THEN NumTrials ELSE SavedRows
            shorter == IF SavedRows > NumTrials
                       THEN ComputedLabels ELSE LabelSet(W1_feature_df)
        IN /\ feature_df.n = hi
           /\ \A k \in 1..Len(feature_df.data) : Len(feature_df.data[k]) = hi
           /\ shorter \subseteq LabelSet(feature_df)
           /\ MissingInRows(feature_df, shorter, lo, hi)
           /\ pc # "aborted" => error = "none"
           /\ CleaningDone =>
                 /\ LabelSet(cleaned_feature_df) \cap shorter = {}
                 /\ SavedRows < NumTrials => "y" \notin LabelSet(cleaned_feature_df)
                 /\ SavedRows > NumTrials =>
                       ~(\E l \in ComputedLabels : l \in LabelSet(cleaned_feature_df))
           /\ pc = "aborted" =>
                 /\ SavedRows < NumTrials
                 /\ error = "KeyError"
                 /\ cleaned_feature_df = Drop(feature_df, null_cols)

\* a saved table of three rows met two trials: the table has three rows and
\* cleaning left only the saved table's columns
C13_Witness ==
    /\ pc = "done"
    /\ SavedRows = 3
    /\ NumTrials = 2
    /\ feature_df.n = 3
    /\ Len(feature_df.columns) = 14
    /\ LabelSet(cleaned_feature_df) = {"y", "C3_mean"}
    /\ error = "none"

-----------------------------------------------------------------------------
(* Properties of the reported with-alpha fraction *)

\* the Concatenate cell has printed the fraction
FractionPrinted == FinalTableBuilt

\* for N >= 1 trials the printed value is num_with_alpha / (3N), in [0, 1]
FractionAsReported ==
    FractionPrinted =>
        /\ NumTrials >= 1
        /\ AlphaFraction = Rat(num_with_alpha, 3 * NumTrials)
        /\ ~IsNaN(AlphaFraction)
        /\ 0 <= AlphaFraction[1]
        /\ AlphaFraction[1] <= AlphaFraction[2]

EpochsLoaded == pc # "load_epochs"

\* C14 (as amended): for an epoch table on which the run reaches the
\* Concatenate cell (N >= 1) the value printed after the loop equals
\* num_with_alpha / (3N) and lies in [0, 1].  For an empty epoch table the
\* run never reaches the FOOOF cell or the division: it ends earlier with a
\* KeyError in the demonstration cell that reads trial 0, the counters never
\* set (0 here, their value before the FOOOF cell), only the intermediate
\* table in memory and nothing persisted.
C14_FractionOrEarlyStop ==
    /\ FractionAsReported
    /\ (EpochsLoaded /\ NumTrials = 0) =>
          /\ num_with_alpha = 0
          /\ num_without_alpha = 0
          /\ error # "ZeroDivisionError"
          /\ pc \in {"load_w1", "alpha_loop", "demo", "aborted"}
          /\ W2_file = <<>>
          /\ fooof_parameters_df = EmptyDF
          /\ pc = "aborted" =>
                /\ error = "KeyError"
                /\ feature_df = Concat(<<W1_feature_df, alpha_med_df>>)

\* five of nine pairs had an alpha peak and 5/9 was printed
C14_Witness ==
    /\ pc = "save"
    /\ NumTrials = 3
    /\ num_with_alpha = 5
    /\ num_without_alpha = 4
    /\ AlphaFraction = Rat(5, 9)
    /\ error = "none"

\* C14 (as stated): for N >= 1 the printed value is num_with_alpha / (3N) in
\* [0, 1]; for an empty epoch table both counters are 0 and the run fails with
\* a division by zero, after the combined table has been built in memory and
\* before it is persisted.
C14_EmptyTableDividesByZero ==
    /\ FractionAsReported
    /\ (EpochsLoaded /\ NumTrials = 0 /\ pc = "aborted") =>
          /\ num_with_alpha = 0
          /\ num_without_alpha = 0
          /\ error = "ZeroDivisionError"
          /\ feature_df = Concat(FinalFrames(fooof_parameters_df))
          /\ W2_file = <<>>

====
